---- MODULE Spec2Model ----
(***************************************************************************)
(* Model of the go-xml streaming tokenizer (src/decoder.go, src/xml.go and *)
(* the attribute arena attrBuffer).  One Decoder reads a fixed input;     *)
(* every step of the model is one call of Decoder.Token() made by a       *)
(* caller that, like the loop of TestToken, keeps the returned pointer    *)
(* and a Copy() of the token.                                             *)
(*                                                                         *)
(* Runes are one-character strings; the input and every Go string or      *)
(* []byte is a sequence of runes (the alphabet is ASCII, so one rune is   *)
(* one byte).  Pointers are modelled explicitly: a *Name is an index into *)
(* nameHeap, a *Attr an index into attrHeap, 0 is nil; a []byte that      *)
(* aliases the scan buffer d.buf and a []*Attr that aliases an arena      *)
(* backing array are views, resolved against the current memory.          *)
(***************************************************************************)
EXTENDS Integers, Sequences, FiniteSets, TLC

VARIABLES input, d, hist, idle

vars == <<input, d, hist, idle>>

----------------------------------------------------------------------------
(* Character classes *)

NUL == "NUL"

Letters == {"a", "b", "c"}

Spaces == {" ", "\n"}

isASCIILetter(r) == r \in Letters

isIdentifierChar(r) == isASCIILetter(r) \/ r = "-" \/ r = "_"

IsSpace(r) == r \in Spaces

Runes == Letters \cup Spaces \cup
         {"<", ">", "/", "!", "-", "?", "[", "]", "{", "}", ":", "=", "\"", "'", "_", "1"}

----------------------------------------------------------------------------
(* Errors.  base is the sentinel the error wraps (errors.Is follows %w),   *)
(* char the rune attached by unexpectedChar, ctx the context phrases added *)
(* by the productions, at the <<row, col>> annotation added by Token().    *)

NoErr == [base |-> "nil", char |-> "", ctx |-> <<>>, at |-> <<>>]

ErrEOF == [base |-> "EOF", char |-> "", ctx |-> <<>>, at |-> <<>>]

ErrUnexpectedEOF == [base |-> "UnexpectedEOF", char |-> "", ctx |-> <<>>, at |-> <<>>]

ErrCommentClosed == [base |-> "comment closed too early", char |-> "", ctx |-> <<>>, at |-> <<>>]

ErrProcInstClosed == [base |-> "proc inst closed too early", char |-> "", ctx |-> <<>>, at |-> <<>>]

(* An error of the underlying io.Reader that is not io.EOF. *)
ErrRead == [base |-> "ReadError", char |-> "", ctx |-> <<>>, at |-> <<>>]

unexpectedChar(r) == [base |-> "UnexpectedChar", char |-> r, ctx |-> <<>>, at |-> <<>>]

Wrap(err, phrase) == [err EXCEPT !.ctx = Append(@, phrase)]

IsEOF(err) == err.base = "EOF"

checkUnexpectedEOF(err) == IF IsEOF(err) THEN ErrUnexpectedEOF ELSE err

----------------------------------------------------------------------------
(* Token pointers: the decoder-owned instances, and nil *)

NilTok == [kind |-> "nil", at |-> "nil"]

StartTagRef == [kind |-> "StartTag", at |-> "startTagBuf"]

CloseTagRef == [kind |-> "CloseTag", at |-> "closeTagBuf"]

CharDataRef == [kind |-> "CharData", at |-> "charDataBuf"]

CommentRef == [kind |-> "Comment", at |-> "commentBuf"]

ProcInstRef == [kind |-> "ProcInst", at |-> "procInstBuf"]

DirectiveRef == [kind |-> "Directive", at |-> "directiveBuf"]

Ret(dd, tok, err) == [d |-> dd, tok |-> tok, err |-> err]

Fail(dd, err) == [d |-> dd, tok |-> NilTok, err |-> err]

----------------------------------------------------------------------------
(* Memory: byte slices and the scan buffer d.buf *)

NilBytes == [alias |-> FALSE, len |-> 0, own |-> <<>>]

bufBytes(dd) == [alias |-> TRUE, len |-> dd.buf.len, own |-> <<>>]

bufString(dd) == SubSeq(dd.buf.mem, 1, dd.buf.len)

bufReset(dd) == [dd EXCEPT !.buf.len = 0]

bufWriteRune(dd, r) ==
  [dd EXCEPT !.buf = [mem |-> IF @.len < Len(@.mem)
                              THEN [@.mem EXCEPT ![@.len + 1] = r]
                              ELSE Append(@.mem, r),
                      len |-> @.len + 1]]

BytesOf(s, dd) == IF s.alias THEN SubSeq(dd.buf.mem, 1, s.len) ELSE s.own

----------------------------------------------------------------------------
(* Position-tracked rune source.  The input holds the runes the source   *)
(* delivers; ReadFault in it stands for a Read of the source that fails   *)
(* with an error other than io.EOF: ReadRune then returns the zero rune   *)
(* and that error, once, and the following call reads on.                 *)

ReadFault == "ReadFault"

(* C13's mutant: a newline starts a row but the column runs on. *)
nextKeepsCol(dd) ==
  IF dd.pos > Len(input)
  THEN [d |-> [dd EXCEPT !.col = @ + 1], r |-> NUL, err |-> ErrEOF]
  ELSE IF input[dd.pos] = ReadFault
  THEN [d |-> [dd EXCEPT !.pos = @ + 1, !.col = @ + 1], r |-> NUL, err |-> ErrRead]
  ELSE [d |-> [dd EXCEPT !.pos = @ + 1, !.col = @ + 1,
                         !.row = IF input[dd.pos] = "\n" THEN @ + 1 ELSE @],
        r |-> input[dd.pos], err |-> NoErr]

next(dd) ==
  IF dd.pos > Len(input)
  THEN [d |-> [dd EXCEPT !.col = @ + 1], r |-> NUL, err |-> ErrEOF]
  ELSE IF input[dd.pos] = ReadFault
  THEN [d |-> [dd EXCEPT !.pos = @ + 1, !.col = @ + 1], r |-> NUL, err |-> ErrRead]
  ELSE LET r == input[dd.pos] IN
       [d |-> IF r = "\n"
              THEN [dd EXCEPT !.pos = @ + 1, !.col = 0, !.row = @ + 1]
              ELSE [dd EXCEPT !.pos = @ + 1, !.col = @ + 1],
        r |-> r, err |-> NoErr]

----------------------------------------------------------------------------
(* Character data *)

RECURSIVE charDataLoop(_, _)
charDataLoop(dd, space) ==
  LET n == next(dd) IN
  IF n.err # NoErr
  THEN Ret([n.d EXCEPT !.charDataBuf.Data = bufBytes(n.d)], CharDataRef, NoErr)
  ELSE IF n.r = "<"
  THEN Ret([n.d EXCEPT !.startedTag = TRUE, !.charDataBuf.Data = bufBytes(n.d)],
           CharDataRef, NoErr)
  ELSE IF n.r = ">"
  THEN Fail(n.d, Wrap(unexpectedChar(n.r), "on chardata"))
  ELSE IF IsSpace(n.r)
  THEN IF space THEN charDataLoop(n.d, TRUE)
       ELSE charDataLoop(bufWriteRune(n.d, " "), TRUE)
  ELSE charDataLoop(bufWriteRune(n.d, n.r), FALSE)

(* C33's mutant: the scan buffer is not reset before the run is written. *)
charDataKeepsBuffer(dd, start) ==
  charDataLoop(bufWriteRune(dd, IF IsSpace(start) THEN " " ELSE start), IsSpace(start))

(* C7's mutant: the first character written, but the loop started as if  *)
(* it had not been whitespace.                                           *)
charDataForgetsStart(dd, start) ==
  charDataLoop(bufWriteRune(bufReset(dd), IF IsSpace(start) THEN " " ELSE start), FALSE)

charData(dd, start) ==
  LET space == IsSpace(start)
      first == IF space THEN " " ELSE start
  IN  charDataLoop(bufWriteRune(bufReset(dd), first), space)

----------------------------------------------------------------------------
(* consume, consumeSpace, readString *)

RECURSIVE consume(_, _, _)
consume(dd, matchSet, read) ==
  LET n == next(dd) IN
  IF n.err # NoErr
  THEN [d |-> n.d, r |-> NUL, err |-> checkUnexpectedEOF(n.err)]
  ELSE IF n.r \notin matchSet
  THEN [d |-> n.d, r |-> n.r, err |-> NoErr]
  ELSE consume(IF read THEN bufWriteRune(n.d, n.r) ELSE n.d, matchSet, read)

consumeSpace(dd) == consume(dd, Spaces, FALSE)

(* C20's mutant: either quote character ends the value. *)
RECURSIVE readStringAnyQuote(_, _)
readStringAnyQuote(dd, quote) ==
  LET n == next(dd) IN
  IF n.err # NoErr
  THEN [d |-> n.d, s |-> <<>>, err |-> checkUnexpectedEOF(n.err)]
  ELSE IF n.r = "\"" \/ n.r = "'"
  THEN [d |-> n.d, s |-> bufString(n.d), err |-> NoErr]
  ELSE readStringAnyQuote(bufWriteRune(n.d, n.r), quote)

RECURSIVE readString(_, _)
readString(dd, quote) ==
  LET n == next(dd) IN
  IF n.err # NoErr
  THEN [d |-> n.d, s |-> <<>>, err |-> checkUnexpectedEOF(n.err)]
  ELSE IF n.r = quote
  THEN [d |-> n.d, s |-> bufString(n.d), err |-> NoErr]
  ELSE readString(bufWriteRune(n.d, n.r), quote)

----------------------------------------------------------------------------
(* Names and the interner.  d.names maps a spelling to a *Name (an index   *)
(* of d.nameHeap); the triemap is used only through Get and Put.           *)

NameLocal(dd, p) == IF p = 0 THEN <<>> ELSE dd.nameHeap[p].local

NameSpace(dd, p) == IF p = 0 THEN <<>> ELSE dd.nameHeap[p].local

namesHas(dd, key) == key \in DOMAIN dd.names

namesPut(dd, key, p) == [dd EXCEPT !.names = (key :> p) @@ @]

newName(dd, space, local) ==
  [dd EXCEPT !.nameHeap = Append(@, [space |-> space, local |-> local])]

RECURSIVE IndexOf(_, _, _)
IndexOf(s, c, i) ==
  IF i > Len(s) THEN 0 ELSE IF s[i] = c THEN i ELSE IndexOf(s, c, i + 1)

SplitN2(s, sep) ==
  LET i == IndexOf(s, sep, 1) IN
  IF i = 0 THEN <<s>> ELSE <<SubSeq(s, 1, i - 1), SubSeq(s, i + 1, Len(s))>>

IdFail(dd, err) == [d |-> dd, name |-> 0, r |-> NUL, err |-> err]

(* C31's mutant: every identifier read gets a Name of its own. *)
resolveNameFresh(dd, r, foundNS) ==
  LET key == bufString(dd)
      parts == SplitN2(key, ":")
  IN
  IF foundNS /\ Len(parts[2]) = 0
  THEN IdFail(dd, Wrap(unexpectedChar(":"), "reading identifier"))
  ELSE LET d1 == IF foundNS THEN newName(dd, parts[1], parts[2])
                 ELSE newName(dd, <<>>, key)
       IN  [d |-> namesPut(d1, key, Len(d1.nameHeap)),
            name |-> Len(d1.nameHeap), r |-> r, err |-> NoErr]

(* C9's mutant: the Name is built without looking at the local part. *)
resolveNameUnchecked(dd, r, foundNS) ==
  LET key == bufString(dd)
      parts == SplitN2(key, ":")
      d1 == IF foundNS THEN newName(dd, parts[1], parts[2]) ELSE newName(dd, <<>>, key)
  IN
  IF namesHas(dd, key)
  THEN [d |-> dd, name |-> dd.names[key], r |-> r, err |-> NoErr]
  ELSE [d |-> namesPut(d1, key, Len(d1.nameHeap)),
        name |-> Len(d1.nameHeap), r |-> r, err |-> NoErr]

resolveName(dd, r, foundNS) ==
  LET key == bufString(dd) IN
  IF namesHas(dd, key)
  THEN [d |-> dd, name |-> dd.names[key], r |-> r, err |-> NoErr]
  ELSE IF foundNS
  THEN LET parts == SplitN2(key, ":") IN
       IF Len(parts[2]) = 0
       THEN IdFail(dd, Wrap(unexpectedChar(":"), "reading identifier"))
       ELSE LET d1 == newName(dd, parts[1], parts[2]) IN
            [d |-> namesPut(d1, key, Len(d1.nameHeap)),
             name |-> Len(d1.nameHeap), r |-> r, err |-> NoErr]
  ELSE LET d1 == newName(dd, <<>>, key) IN
       [d |-> namesPut(d1, key, Len(d1.nameHeap)),
        name |-> Len(d1.nameHeap), r |-> r, err |-> NoErr]

RECURSIVE readIdentifierLoop(_, _, _, _)
readIdentifierLoop(dd, isAttribute, prev, foundNS) ==
  LET n == next(dd)
      ends == IsSpace(n.r) \/ (n.r = "=" /\ isAttribute)
  IN
  IF n.err # NoErr
  THEN IdFail(n.d, checkUnexpectedEOF(n.err))
  ELSE IF (n.r = ":" /\ ~foundNS) \/ isIdentifierChar(n.r)
  THEN readIdentifierLoop(bufWriteRune(n.d, n.r), isAttribute, n.r,
                          foundNS \/ n.r = ":")
  ELSE IF (ends /\ isASCIILetter(prev)) \/ (~ends /\ n.r = ">")
  THEN resolveName(n.d, n.r, foundNS)
  ELSE IdFail(n.d, Wrap(unexpectedChar(IF ends THEN prev ELSE n.r), "reading identifier"))

readIdentifier(dd, isAttribute) == readIdentifierLoop(dd, isAttribute, NUL, FALSE)

----------------------------------------------------------------------------
(* Attribute arena.  d.arrays holds every backing array ever allocated for *)
(* the arena, d.attrs.arr names the current one; an []*Attr is a view      *)
(* (arr, len) of one of them, or owns its elements (arr = 0).              *)

ArenaInitLen == 30

NilAttrs == [arr |-> 0, len |-> 0, own |-> <<>>]

AttrsOf(s, dd) == IF s.arr = 0 THEN s.own ELSE SubSeq(dd.arrays[s.arr], 1, s.len)

arenaLen(dd) == Len(dd.arrays[dd.attrs.arr])

growBy(dd, n) ==
  [dd EXCEPT !.arrays = Append(@, @[dd.attrs.arr] \o [i \in 1..n |-> 0]),
             !.attrs.arr = Len(dd.arrays) + 1]

attrsReset(dd) == [dd EXCEPT !.attrs.pos = 0]

(* C37's mutant: the arena grows only once the cursor is at its end. *)
attrsAddGrowsLate(dd, a) ==
  LET d1 == IF dd.attrs.pos = arenaLen(dd) + 1
            THEN growBy(dd, (arenaLen(dd) * 2) \div 3)
            ELSE dd
  IN  [d1 EXCEPT !.arrays[d1.attrs.arr][d1.attrs.pos + 1] = a,
                 !.attrs.pos = @ + 1]

(* C16's mutant: an attribute whose name the tag already has replaces the *)
(* earlier one.                                                          *)
attrsAddMerging(dd, a) ==
  LET same == {n \in 1..dd.attrs.pos :
                 dd.attrHeap[dd.arrays[dd.attrs.arr][n]].Name = dd.attrHeap[a].Name}
      d1 == IF dd.attrs.pos + 1 = arenaLen(dd)
            THEN growBy(dd, (arenaLen(dd) * 2) \div 3)
            ELSE dd
  IN  IF same # {}
      THEN [dd EXCEPT !.arrays[dd.attrs.arr][CHOOSE n \in same : TRUE] = a]
      ELSE [d1 EXCEPT !.arrays[d1.attrs.arr][d1.attrs.pos + 1] = a,
                      !.attrs.pos = @ + 1]

attrsAdd(dd, a) ==
  LET d1 == IF dd.attrs.pos + 1 = arenaLen(dd)
            THEN growBy(dd, (arenaLen(dd) * 2) \div 3)
            ELSE dd
  IN  [d1 EXCEPT !.arrays[d1.attrs.arr][d1.attrs.pos + 1] = a,
                 !.attrs.pos = @ + 1]

attrsGet(dd) ==
  IF dd.attrs.pos = 0
  THEN [d |-> dd, attrs |-> NilAttrs]
  ELSE [d |-> attrsReset(dd),
        attrs |-> [arr |-> dd.attrs.arr, len |-> dd.attrs.pos, own |-> <<>>]]

newAttr(dd, name) == [dd EXCEPT !.attrHeap = Append(@, [Name |-> name, Value |-> <<>>])]

----------------------------------------------------------------------------
(* Start tag.  The attribute loop of startTag is written as one operator  *)
(* per step of its body, each handing the result of the read it made to   *)
(* the next: startTagRound is one pass through the loop body and          *)
(* startTagLoop repeats it until the body returns.                        *)

startTagDone(dd) ==
  LET g == attrsGet(dd) IN
  Ret([g.d EXCEPT !.startTagBuf.Attr = g.attrs], StartTagRef, NoErr)

(* the loop body ends in a return or in another round (`continue`) *)
Again == [kind |-> "continue", at |-> "loop"]

Continue(dd) == Ret(dd, Again, NoErr)

(* attr.Value, err = d.readString(last), then the next round *)
attrValueRead(s) ==
  IF s.err # NoErr
  THEN Fail(s.d, Wrap(s.err, "reading attribute value on tag"))
  ELSE Continue([s.d EXCEPT !.attrHeap[Len(s.d.attrHeap)].Value = s.s])

(* after `=`: spaces, then the opening quote *)
attrValue(q) ==
  IF q.err # NoErr
  THEN Fail(q.d, Wrap(q.err, "after attribute on tag"))
  ELSE IF q.r # "\"" /\ q.r # "'"
  THEN Fail(q.d, Wrap(unexpectedChar(q.r), "expected value for attribute on tag"))
  ELSE attrValueRead(readString(bufReset(q.d), q.r))

(* the attribute is in the arena; last decides what follows *)
attrAdded(dd, last) ==
  IF last = ">"
  THEN startTagDone(dd)
  ELSE IF last # "="
  THEN Continue(dd)
  ELSE attrValue(consumeSpace(dd))

(* attr := Attr{Name: name}; d.attrs.add(&attr) if last allows it *)
attrAdd(dd, name, last) ==
  IF last = "=" \/ last = ">" \/ isASCIILetter(last)
  THEN attrAdded(attrsAdd(newAttr(dd, name), Len(dd.attrHeap) + 1), last)
  ELSE Fail(dd, Wrap(unexpectedChar(last), "for attribute on tag"))

attrAfterSpace(name, c) ==
  IF c.err # NoErr
  THEN Fail(c.d, Wrap(c.err, "for attribute on tag"))
  ELSE attrAdd(c.d, name, c.r)

attrAfterName(id) ==
  IF id.err # NoErr
  THEN Fail(id.d, Wrap(id.err, "for attribute on tag"))
  ELSE IF IsSpace(id.r)
  THEN attrAfterSpace(id.name, consumeSpace(id.d))
  ELSE attrAdd(id.d, id.name, id.r)

(* "Find the attribute name" *)
startTagAttr(dd, first) ==
  attrAfterName(readIdentifier(bufWriteRune(bufReset(dd), first), TRUE))

(* "See if there are no more attributes" *)
attrOrEnd(dd, last) ==
  IF last = ">"
  THEN startTagDone(dd)
  ELSE IF ~isASCIILetter(last)
  THEN Fail(dd, Wrap(unexpectedChar(last), "on tag"))
  ELSE startTagAttr(dd, last)

(* after the `/` of a self-closing tag; d.selfClosingTag is already set *)
afterSlash(n) ==
  IF n.err # NoErr
  THEN Fail(n.d, Wrap(n.err, "expected '>' for self-close tag"))
  ELSE IF n.r # ">"
  THEN Fail(n.d, Wrap(unexpectedChar(n.r), "expected '>' for self-close tag"))
  ELSE attrOrEnd(n.d, n.r)

afterSpace(c) ==
  IF c.err # NoErr
  THEN Fail(c.d, Wrap(c.err, "expected attribute identifier"))
  ELSE IF c.r = "/"
  THEN afterSlash(next([c.d EXCEPT !.selfClosingTag = c.d.startTagBuf.Name]))
  ELSE attrOrEnd(c.d, c.r)

startTagRound(dd) == afterSpace(consumeSpace(dd))

RECURSIVE startTagLoop(_)

startTagNext(round) ==
  IF round.tok = Again THEN startTagLoop(round.d) ELSE round

startTagLoop(dd) == startTagNext(startTagRound(dd))

startTagName(id) ==
  IF id.err # NoErr
  THEN Fail(id.d, Wrap(id.err, "expected tag identifier"))
  ELSE IF id.r = ">"
  THEN Ret([id.d EXCEPT !.startTagBuf.Name = id.name], StartTagRef, NoErr)
  ELSE startTagLoop(attrsReset([id.d EXCEPT !.startTagBuf.Name = id.name]))

startTag(dd) == startTagName(readIdentifier(dd, FALSE))

----------------------------------------------------------------------------
(* Close tag *)

closeTagEnd(name, e) ==
  IF e.err # NoErr
  THEN Fail(e.d, Wrap(e.err, "on closing tag"))
  ELSE IF e.r # ">"
  THEN Fail(e.d, Wrap(unexpectedChar(e.r), "expected '>' for closing tag"))
  ELSE Ret([e.d EXCEPT !.closeTagBuf.Name = name], CloseTagRef, NoErr)

closeTagName(id) ==
  IF id.err # NoErr
  THEN Fail(id.d, Wrap(id.err, "expected closing tag"))
  ELSE closeTagEnd(id.name, IF IsSpace(id.r) THEN consumeSpace(id.d)
                            ELSE [d |-> id.d, r |-> id.r, err |-> NoErr])

closeTagStart(c) ==
  IF c.err # NoErr
  THEN Fail(c.d, Wrap(c.err, "expected closing tag"))
  ELSE IF ~isASCIILetter(c.r)
  THEN Fail(c.d, Wrap(unexpectedChar(c.r), "expected closing tag"))
  ELSE closeTagName(readIdentifier(bufWriteRune(bufReset(c.d), c.r), FALSE))

(* C8's mutant: a close tag is accepted only under the name of the last *)
(* start tag.                                                           *)
closeTagMatching(dd) ==
  LET t == closeTagStart(consumeSpace(dd)) IN
  IF t.err = NoErr /\ t.d.closeTagBuf.Name # dd.startTagBuf.Name
  THEN Fail(t.d, Wrap(unexpectedChar("/"), "closing tag does not match"))
  ELSE t

closeTag(dd) == closeTagStart(consumeSpace(dd))

----------------------------------------------------------------------------
(* Comment, processing instruction, directive *)

RECURSIVE commentLoop(_, _)
commentLoop(dd, count) ==
  LET n == next(dd) IN
  IF n.err # NoErr
  THEN Fail(n.d, checkUnexpectedEOF(n.err))
  ELSE
  LET count1 == IF n.r = "-" THEN count + 1 ELSE count IN
  IF n.r = ">"
  THEN IF count1 >= 2
       THEN Ret(IF n.d.ReadComment
                THEN [n.d EXCEPT !.commentBuf.Data =
                        [alias |-> TRUE, len |-> n.d.buf.len - 2, own |-> <<>>]]
                ELSE n.d,
                CommentRef, NoErr)
       ELSE Fail(n.d, ErrCommentClosed)
  ELSE commentLoop(IF n.d.ReadComment THEN bufWriteRune(n.d, n.r) ELSE n.d, count1)

(* C24's mutant: the two `-` of the opening are counted. *)
commentCountsOpening(dd) == commentLoop(dd, 2)

(* C12's mutant: the second `-` of the opening is left in the buffer. *)
commentKeepsDash(dd) == commentLoop(bufWriteRune(dd, "-"), 0)

comment(dd) == commentLoop(dd, 0)

RECURSIVE procInstLoop(_, _)
procInstLoop(dd, questionMark) ==
  LET n == next(dd) IN
  IF n.err # NoErr
  THEN Fail(n.d, checkUnexpectedEOF(n.err))
  ELSE IF n.r = ">"
  THEN IF questionMark
       THEN Ret(n.d, ProcInstRef, NoErr)
       ELSE Fail(n.d, ErrProcInstClosed)
  ELSE procInstLoop(n.d, n.r = "?")

(* C27's mutant: the `?` of the opening counts as the one before `>`. *)
procInstCountsOpening(dd) == procInstLoop(dd, TRUE)

procInst(dd) == procInstLoop(dd, FALSE)

directiveDone(dd) ==
  Ret(IF dd.ReadDirective THEN [dd EXCEPT !.directiveBuf.Data = bufBytes(dd)] ELSE dd,
      DirectiveRef, NoErr)

RECURSIVE directiveGroups(_, _)
directiveGroups(dd, r) ==
  IF r # "[" /\ r # "{"
  THEN [d |-> dd, r |-> r, err |-> NoErr]
  ELSE
  LET d1 == IF dd.ReadDirective THEN bufWriteRune(dd, r) ELSE dd
      target == IF r = "{" THEN "}" ELSE "]"
      c == consume(d1, Runes \ {target}, dd.ReadDirective)
  IN
  IF c.err # NoErr
  THEN [d |-> c.d, r |-> NUL, err |-> Wrap(c.err, "expected bracket")]
  ELSE directiveGroups(c.d, c.r)

RECURSIVE directiveLoop(_)
directiveLoop(dd) ==
  LET n == next(dd) IN
  IF n.err # NoErr
  THEN Fail(n.d, checkUnexpectedEOF(n.err))
  ELSE
  LET g == directiveGroups(n.d, n.r) IN
  IF g.err # NoErr
  THEN Fail(g.d, g.err)
  ELSE IF g.r = ">"
  THEN directiveDone(g.d)
  ELSE directiveLoop(IF g.d.ReadDirective THEN bufWriteRune(g.d, g.r) ELSE g.d)

(* C11's mutant: the character after `<!` is not written to the buffer. *)
directiveDropsFirst(dd, last) ==
  IF last = ">" THEN directiveDone(dd) ELSE directiveLoop(dd)

directive(dd, last) ==
  IF last = ">"
  THEN directiveDone(dd)
  ELSE directiveLoop(IF dd.ReadDirective THEN bufWriteRune(dd, last) ELSE dd)

----------------------------------------------------------------------------
(* Dispatch *)

(* C28's mutant: whatever follows `<` and is not `/` begins a start tag. *)
angleStartTagsOnly(dd) ==
  LET n == next(dd) IN
  IF n.err # NoErr
  THEN Fail(n.d, checkUnexpectedEOF(n.err))
  ELSE IF n.r = "/"
  THEN closeTag(n.d)
  ELSE startTag(bufWriteRune(bufReset(n.d), n.r))

angleStart(dd) ==
  LET n == next(dd) IN
  IF n.err # NoErr
  THEN Fail(n.d, checkUnexpectedEOF(n.err))
  ELSE IF isASCIILetter(n.r)
  THEN startTag(bufWriteRune(bufReset(n.d), n.r))
  ELSE IF n.r = "/"
  THEN closeTag(n.d)
  ELSE IF n.r = "!"
  THEN LET n1 == next(bufReset(n.d)) IN
       IF n1.err # NoErr
       THEN Fail(n1.d, checkUnexpectedEOF(n1.err))
       ELSE IF n1.r # "-"
       THEN directive(n1.d, n1.r)
       ELSE LET n2 == next(n1.d) IN
            IF n2.err # NoErr
            THEN Fail(n2.d, checkUnexpectedEOF(n2.err))
            ELSE IF n2.r # "-"
            THEN Fail(n2.d, Wrap(unexpectedChar(n2.r), "expected '<--'"))
            ELSE comment(n2.d)
  ELSE IF n.r = "?"
  THEN procInst(n.d)
  ELSE Fail(n.d, unexpectedChar(n.r))

(* C5's mutant: the synthetic close tag is a new CloseTag each time. *)
emitSelfCloseFresh(dd) ==
  Ret([dd EXCEPT !.selfClosingTag = 0], [kind |-> "CloseTag", at |-> "new"], NoErr)

(* C22's mutant: the close tag is emitted and stays pending. *)
emitSelfCloseKeepsPending(dd) ==
  Ret([dd EXCEPT !.closeTagBuf.Name = dd.selfClosingTag], CloseTagRef, NoErr)

emitSelfClose(dd) ==
  Ret([dd EXCEPT !.closeTagBuf.Name = dd.selfClosingTag, !.selfClosingTag = 0],
      CloseTagRef, NoErr)

(* C35's mutant: the end of the input between tokens gives an empty      *)
(* CharData.                                                             *)
dispatchEmptyCharData(n) ==
  IF n.err # NoErr
  THEN Ret([n.d EXCEPT !.charDataBuf.Data = NilBytes], CharDataRef, NoErr)
  ELSE IF n.r = ">"
  THEN Fail(n.d, unexpectedChar(n.r))
  ELSE IF n.r # "<"
  THEN charData(n.d, n.r)
  ELSE angleStart(n.d)

(* C14's mutant: the end of the input between tokens is remapped like the *)
(* end inside a production.                                              *)
dispatchRemapsEOF(n) ==
  IF n.err # NoErr
  THEN Fail(n.d, checkUnexpectedEOF(n.err))
  ELSE IF n.r = ">"
  THEN Fail(n.d, unexpectedChar(n.r))
  ELSE IF n.r # "<"
  THEN charData(n.d, n.r)
  ELSE angleStart(n.d)

dispatch(n) ==
  IF n.err # NoErr
  THEN Fail(n.d, n.err)
  ELSE IF n.r = ">"
  THEN Fail(n.d, unexpectedChar(n.r))
  ELSE IF n.r # "<"
  THEN charData(n.d, n.r)
  ELSE angleStart(n.d)

(* C32's mutant: d.startedTag is not cleared when it is acted on. *)
tokenKeepsStartedTag(dd) ==
  IF ~dd.startedTag /\ dd.selfClosingTag # 0
  THEN emitSelfClose(dd)
  ELSE IF ~dd.startedTag
  THEN dispatch(next(dd))
  ELSE angleStart(dd)

(* C30's mutant: the `<` that ended character data is forgotten, the      *)
(* next call reads as at a token boundary.                               *)
tokenForgetsStartedTag(dd) ==
  IF ~dd.startedTag /\ dd.selfClosingTag # 0
  THEN emitSelfClose(dd)
  ELSE dispatch(next([dd EXCEPT !.startedTag = FALSE]))

token(dd) ==
  IF ~dd.startedTag /\ dd.selfClosingTag # 0
  THEN emitSelfClose(dd)
  ELSE IF ~dd.startedTag
  THEN dispatch(next(dd))
  ELSE angleStart([dd EXCEPT !.startedTag = FALSE])

annotate(t) ==
  IF t.err # NoErr /\ ~IsEOF(t.err)
  THEN Fail(t.d, [t.err EXCEPT !.at = <<t.d.row + 1, t.d.col>>])
  ELSE t

Token(dd) == annotate(token(dd))

NewDecoder ==
  [ReadComment |-> FALSE, ReadDirective |-> FALSE,
   pos |-> 1, row |-> 0, col |-> 0,
   startedTag |-> FALSE, selfClosingTag |-> 0,
   buf |-> [mem |-> <<>>, len |-> 0],
   attrs |-> [arr |-> 1, pos |-> 0],
   arrays |-> <<[i \in 1..ArenaInitLen |-> 0]>>,
   names |-> <<>>, nameHeap |-> <<>>, attrHeap |-> <<>>,
   startTagBuf |-> [Name |-> 0, Attr |-> NilAttrs],
   closeTagBuf |-> [Name |-> 0],
   charDataBuf |-> [Data |-> NilBytes],
   commentBuf |-> [Data |-> NilBytes],
   directiveBuf |-> [Data |-> NilBytes]]

----------------------------------------------------------------------------
(* Token values.  The caller sees a token through its pointer; Copy() is   *)
(* what xml.go does for each variant; TokValue is the deep value that     *)
(* cmp.Diff compares (names and attributes resolved, bytes as strings).   *)

NilCopy == [kind |-> "nil"]

Deref(ptr, dd) ==
  CASE ptr.at = "startTagBuf" ->
         [kind |-> "StartTag", Name |-> dd.startTagBuf.Name, Attr |-> dd.startTagBuf.Attr]
    [] ptr.at = "closeTagBuf" -> [kind |-> "CloseTag", Name |-> dd.closeTagBuf.Name]
    [] ptr.at = "charDataBuf" -> [kind |-> "CharData", Data |-> dd.charDataBuf.Data]
    [] ptr.at = "commentBuf" -> [kind |-> "Comment", Data |-> dd.commentBuf.Data]
    [] ptr.at = "procInstBuf" -> [kind |-> "ProcInst"]
    [] ptr.at = "directiveBuf" -> [kind |-> "Directive", Data |-> dd.directiveBuf.Data]
    [] OTHER -> NilCopy

(* C6's mutant: the struct is copied, the Attr slice header with it. *)
StartTagCopyShallow(s, dd) == [kind |-> "StartTag", Name |-> s.Name, Attr |-> s.Attr]

StartTagCopy(s, dd) ==
  [kind |-> "StartTag", Name |-> s.Name,
   Attr |-> IF s.Attr # NilAttrs
            THEN [arr |-> 0, len |-> s.Attr.len, own |-> AttrsOf(s.Attr, dd)]
            ELSE NilAttrs]

CloseTagCopy(t, dd) == [kind |-> "CloseTag", Name |-> t.Name]

CharDataCopy(t, dd) ==
  [kind |-> "CharData",
   Data |-> [alias |-> FALSE, len |-> t.Data.len, own |-> BytesOf(t.Data, dd)]]

CommentCopy(t, dd) == [kind |-> "Comment", Data |-> t.Data]

ProcInstCopy(t, dd) == [kind |-> "ProcInst"]

DirectiveCopy(t, dd) == [kind |-> "Directive", Data |-> t.Data]

Copy(t, dd) ==
  CASE t.kind = "StartTag" -> StartTagCopy(t, dd)
    [] t.kind = "CloseTag" -> CloseTagCopy(t, dd)
    [] t.kind = "CharData" -> CharDataCopy(t, dd)
    [] t.kind = "Comment" -> CommentCopy(t, dd)
    [] t.kind = "ProcInst" -> ProcInstCopy(t, dd)
    [] t.kind = "Directive" -> DirectiveCopy(t, dd)
    [] OTHER -> NilCopy

NameVal(dd, p) ==
  IF p = 0 THEN [space |-> <<>>, local |-> <<>>] ELSE dd.nameHeap[p]

AttrVal(dd, a) ==
  IF a = 0 THEN [name |-> NameVal(dd, 0), value |-> <<>>]
  ELSE [name |-> NameVal(dd, dd.attrHeap[a].Name), value |-> dd.attrHeap[a].Value]

TokValue(t, dd) ==
  CASE t.kind = "StartTag" ->
         [kind |-> "StartTag", name |-> NameVal(dd, t.Name),
          attrs |-> LET as == AttrsOf(t.Attr, dd) IN
                    [i \in 1..Len(as) |-> AttrVal(dd, as[i])]]
    [] t.kind = "CloseTag" -> [kind |-> "CloseTag", name |-> NameVal(dd, t.Name)]
    [] t.kind = "CharData" -> [kind |-> "CharData", data |-> BytesOf(t.Data, dd)]
    [] t.kind = "Comment" -> [kind |-> "Comment", data |-> BytesOf(t.Data, dd)]
    [] t.kind = "ProcInst" -> [kind |-> "ProcInst"]
    [] t.kind = "Directive" -> [kind |-> "Directive", data |-> BytesOf(t.Data, dd)]
    [] OTHER -> NilCopy

----------------------------------------------------------------------------
(* Inputs: concatenations of at most MaxTexts texts.  Texts may stand      *)
(* anywhere; a TailText (a production the input ends in, or one of the    *)
(* malformed productions of TestTokenErrors and their kin) stands last.   *)

MaxTexts == 2

MaxIdle == 2

StartTagTexts ==
  {<<"<", "a", ">">>,
   <<"<", "a", ":", "b", ">">>,
   <<"<", "a", "b", " ", "/", ">">>,
   <<"<", "a", "b", " ", "c", "a", "=", "\"", "'", ">", "\"", "/", ">">>,
   <<"<", "a", "b", " ", "c", "a", "=", "'", "a", "'", " ", "c", "a", "=", "\"", "b", "\"", ">">>,
   <<"<", "a", "b", " ", "c", "a", ">">>}

CloseTagTexts ==
  {<<"<", "/", "b", ">">>,
   <<"<", "/", " ", "a", ":", "b", " ", ">">>}

CommentTexts ==
  {<<"<", "!", "-", "-", "a", "-", "-", ">">>}

ProcInstTexts ==
  {<<"<", "?", "a", "?", ">">>}

DirectiveTexts ==
  {<<"<", "!", ">">>,
   <<"<", "!", "a", "[", "<", ">", "]", "{", ">", "}", "b", ">">>}

CharDataTexts ==
  {<<"a">>,
   <<" ", "\n", " ", "a", " ", " ", "b", " ">>}

ErrorTexts ==
  {<<"<", "a", "b", "/", ">">>,
   <<"<", "a", " ", "b", "=", "'", "1", "'", ">">>,
   <<"<", "a", "b", " ", "c", "a", "=", "1", ">">>,
   <<"<", ":", "a", ">">>,
   <<"<", "a", ":", ">">>,
   <<"<", "a", ":", "b", ":", "a", ">">>,
   <<"<", "/", "1", ">">>,
   <<"<", "!", "-", "-", "a", "-", ">">>,
   <<"<", "!", "-", "a", "-", "-", ">">>,
   <<"<", "?", "a", ">">>,
   <<"<", "!", "[", ">", "]", ">">>,
   <<"<", "a", "b", "-", " ", ">">>,
   <<"<", "a", "b", " ", "c", "a", "_", "=", "'", "1", "'", ">">>,
   <<"<", "!", "-", "-", ">">>,
   <<"<", "?", ">">>,
   <<"<", "?", "a", "?", "b", ">">>,
   <<"<", "/", "a", " ", ">">>,
   <<"<", "/", "a", "b", " ", "c", ">">>,
   <<"<", "a", "b", " ", "/", "a", ">">>,
   <<"a", ">", "b">>}

TruncatedTexts ==
  {<<"<">>,
   <<"<", "a", "b">>,
   <<"<", "a", "b", " ">>,
   <<"<", "a", "b", " ", "/">>,
   <<"<", "a", "b", " ", "c", "a", "=", "\"", "a">>,
   <<"<", "/", "a">>,
   <<"<", "!", "-", "-", "a">>,
   <<"<", "?", "a">>,
   <<"<", "!", "a">>,
   <<"<", "!", "a", "[", "<">>}

Texts == StartTagTexts \cup CloseTagTexts \cup CommentTexts \cup ProcInstTexts
         \cup DirectiveTexts \cup CharDataTexts

(* Well-formed productions that the inputs have in last place only. *)
LastTexts ==
  {<<"<", "!", "-", "-", "a", " ", "-", "b", "-", "-", ">">>,
   <<"<", "!", "-", "-", "a", "-", "b", "-", "c", ">">>,
   <<"<", "!", "-", "-", "-", "a", "-", ">">>,
   <<"<", "a", "b", " ", "c", "a", " ", "b", "a", "b", "=", "'", "1", "'", ">">>,
   <<"<", "a", "b", " ", "c", "=", "'", "1", "'", ">">>,
   <<"<", "a", "b", " ", "c", "a", "=", " ", "'", "<", " ", "/", "\"", "'", ">">>}

TailTexts == ErrorTexts \cup TruncatedTexts \cup LastTexts

RECURSIVE Concats(_)
Concats(n) ==
  IF n = 0 THEN {<<>>}
  ELSE LET shorter == Concats(n - 1) IN
       shorter \cup {s \o t : s \in shorter, t \in Texts}

TextInputs ==
  Concats(MaxTexts) \cup {s \o t : s \in Concats(MaxTexts - 1), t \in TailTexts}

(* Inputs that fill the attribute arena: three start tags, the first with *)
(* one, ArenaInitLen - 1 or ArenaInitLen attributes, the second with one   *)
(* or ArenaInitLen, the third with one.                                    *)

RECURSIVE Repeat(_, _)
Repeat(s, n) == IF n = 0 THEN <<>> ELSE s \o Repeat(s, n - 1)

TagWith(k) == <<"<", "a", "b", " ">> \o Repeat(<<"c", "a", "=", "'", "'">>, k) \o <<">">>

ArenaInputs ==
  {TagWith(i) \o TagWith(j) \o TagWith(1) :
     i \in {1, ArenaInitLen - 1, ArenaInitLen}, j \in {1, ArenaInitLen}}

(* Inputs whose source fails: every prefix of a FaultedText, the whole    *)
(* text included, and then the failing Read.                             *)

FaultedTexts ==
  {<<"a", " ", "b">>,
   <<"<", "a", "b", " ", "c", "a", "=", "'", "a", "'", " ", "/", ">">>,
   <<"<", "/", " ", "a", "b", " ", ">">>,
   <<"<", "!", "-", "-", "a", "-", "-", ">">>,
   <<"<", "?", "a", "?", ">">>,
   <<"<", "!", "a", "[", "b", "]", ">">>}

FaultInputs ==
  UNION {{SubSeq(t, 1, n) \o <<ReadFault>> : n \in 0..Len(t)} : t \in FaultedTexts}

(* Inputs whose source fails once and then delivers on, as a reader with  *)
(* a transient error (iotest.TimeoutReader) does.                         *)

ResumedInputs ==
  {<<"a", ReadFault, "b">>,
   <<"a", ReadFault, "<", "a", ">">>}

Inputs == TextInputs \cup ArenaInputs \cup FaultInputs \cup ResumedInputs

----------------------------------------------------------------------------
(* The caller.  CallToken is one round of the caller's loop: call Token(), *)
(* keep the returned pointer, and keep a Copy() of the token when there is *)
(* one.  hist logs each call: the returned pointer and error, the struct  *)
(* the pointer led to when it was returned (raw, slice headers included), *)
(* its Copy(), its deep value at that moment (snap), the reader position  *)
(* before and after, the pending markers and the arena's backing array    *)
(* before the call, how many Attr had been allocated before and after it, *)
(* whether a Comment or Directive was read with its option on, and d.row  *)
(* and d.col as the call left them.                                       *)

Init ==
  /\ input \in Inputs
  /\ d = NewDecoder
  /\ hist = <<>>
  /\ idle = 0

SetReadComment(b) ==
  /\ d.ReadComment # b
  /\ d' = [d EXCEPT !.ReadComment = b]
  /\ UNCHANGED <<input, hist, idle>>

SetReadDirective(b) ==
  /\ d.ReadDirective # b
  /\ d' = [d EXCEPT !.ReadDirective = b]
  /\ UNCHANGED <<input, hist, idle>>

Entry(t) ==
  [tok |-> t.tok, err |-> t.err,
   raw |-> Deref(t.tok, t.d),
   copy |-> Copy(Deref(t.tok, t.d), t.d),
   snap |-> TokValue(Deref(t.tok, t.d), t.d),
   from |-> d.pos, to |-> t.d.pos,
   startedTag |-> d.startedTag, selfClosingTag |-> d.selfClosingTag,
   arena |-> d.attrs.arr, heapFrom |-> Len(d.attrHeap), heapTo |-> Len(t.d.attrHeap),
   read |-> (t.tok = CommentRef /\ d.ReadComment) \/ (t.tok = DirectiveRef /\ d.ReadDirective),
   row |-> t.d.row, col |-> t.d.col]

Called(t) ==
  /\ d' = t.d
  /\ hist' = Append(hist, Entry(t))

CallToken ==
  /\ d.pos > Len(input) => idle < MaxIdle
  /\ Called(Token(d))
  /\ idle' = IF d.pos > Len(input) THEN idle + 1 ELSE idle
  /\ UNCHANGED input

Next ==
  \/ \E b \in BOOLEAN : SetReadComment(b)
  \/ \E b \in BOOLEAN : SetReadDirective(b)
  \/ CallToken

Spec == Init /\ [][Next]_vars

----------------------------------------------------------------------------
(* Vocabulary of the properties *)

Calls == 1..Len(hist)

Returned(i) == hist[i].tok # NilTok

(* Call i began a production of its own: nothing was pending, or the `<`   *)
(* that character data had consumed was; TextStart(i) is where the text   *)
(* of that production begins in the input.                                *)
Fresh(i) == hist[i].startedTag \/ hist[i].selfClosingTag = 0

TextStart(i) == IF hist[i].startedTag THEN hist[i].from - 1 ELSE hist[i].from

TextAt(t, p) ==
  /\ p >= 1
  /\ p + Len(t) - 1 <= Len(input)
  /\ SubSeq(input, p, p + Len(t) - 1) = t

Begins(i, t) == Fresh(i) /\ TextAt(t, TextStart(i))

PlainName(local) == [space |-> <<>>, local |-> local]

LastOfKind(k) ==
  CHOOSE j \in Calls :
    /\ hist[j].tok.kind = k
    /\ \A n \in Calls : hist[n].tok.kind = k => n <= j

Min(a, b) == IF a <= b THEN a ELSE b

----------------------------------------------------------------------------
(* C1 (Copy independence): for every token returned by Token(), the value  *)
(* of its Copy() equals the value the token had when it was returned and  *)
(* keeps that value after any later Token() call.                         *)
C1_CopyIndependence ==
  \A i \in Calls : Returned(i) => TokValue(hist[i].copy, d) = hist[i].snap

----------------------------------------------------------------------------
(* C2 (Self-closing synthesis): a start tag closed with `/>`, with or      *)
(* without attributes and also with `/` directly after the name, makes    *)
(* the call that reads it return StartTag{name} and the next call         *)
(* CloseTag{name}, both without error.                                    *)
SelfClosingTexts ==
  {<<"<", "a", "b", "/", ">">>,
   <<"<", "a", "b", " ", "/", ">">>,
   <<"<", "a", "b", " ", "c", "a", "=", "\"", "'", ">", "\"", "/", ">">>}

C2_SelfClosingSynthesis ==
  \A i \in Calls : \A t \in SelfClosingTexts :
    Begins(i, t) =>
      /\ hist[i].tok = StartTagRef
      /\ hist[i].err = NoErr
      /\ hist[i].snap.name = PlainName(<<"a", "b">>)
      /\ hist[i].to = TextStart(i) + Len(t)
      /\ i + 1 \in Calls =>
           /\ hist[i + 1].tok = CloseTagRef
           /\ hist[i + 1].err = NoErr
           /\ hist[i + 1].snap.name = PlainName(<<"a", "b">>)
           /\ hist[i + 1].to = hist[i + 1].from

----------------------------------------------------------------------------
(* C3 (Namespace splitting): the Name resolved for a spelling p:l has      *)
(* Space() = p and Local() = l, the Name of a spelling without separator  *)
(* has empty Space() and Local() the whole spelling, and both accessors   *)
(* return the empty string on a nil Name.                                 *)
C3_NamespaceSplitting ==
  /\ NameLocal(d, 0) = <<>>
  /\ NameSpace(d, 0) = <<>>
  /\ \A key \in DOMAIN d.names :
       LET c == IndexOf(key, ":", 1)
           p == d.names[key]
       IN  IF c = 0
           THEN NameSpace(d, p) = <<>> /\ NameLocal(d, p) = key
           ELSE /\ NameSpace(d, p) = SubSeq(key, 1, c - 1)
                /\ NameLocal(d, p) = SubSeq(key, c + 1, Len(key))

----------------------------------------------------------------------------
(* C4 (End of input inside a production): a Token() call that had a `<`    *)
(* consumed, by itself or by the character data before it, and then met   *)
(* the end of the input returns an error that is not io.EOF.              *)
InsideProduction(i) ==
  \/ hist[i].startedTag
  \/ hist[i].selfClosingTag = 0 /\ hist[i].to > hist[i].from /\ input[hist[i].from] = "<"

C4_UnexpectedEOFInside ==
  \A i \in Calls :
    InsideProduction(i) /\ ~Returned(i) /\ hist[i].to > Len(input)
      /\ hist[i].err.base \in {"EOF", "UnexpectedEOF"}
    => ~IsEOF(hist[i].err)

----------------------------------------------------------------------------
(* C5 (Per-variant instance reuse), as stated: every call that returns a   *)
(* token of a kind returns the same instance, and a reference kept from   *)
(* an earlier call shows, at any later time, the contents the most recent *)
(* token of that kind was returned with.                                  *)
C5_ReferenceShowsLatest ==
  \A i \in Calls :
    Returned(i) =>
      /\ hist[i].tok = hist[LastOfKind(hist[i].tok.kind)].tok
      /\ TokValue(Deref(hist[i].tok, d), d) = hist[LastOfKind(hist[i].tok.kind)].snap

(* C5 (Per-variant instance reuse), amended: every call that returns a     *)
(* token of a kind returns the same instance, and when the latest call    *)
(* returned a token of that kind, a reference kept from an earlier call   *)
(* shows the contents of that latest token.                               *)
C5_InstanceReuse ==
  \A i, j \in Calls :
    Returned(i) /\ Returned(j) /\ hist[i].tok.kind = hist[j].tok.kind =>
      /\ hist[i].tok = hist[j].tok
      /\ j = Len(hist) => TokValue(Deref(hist[i].tok, d), d) = hist[j].snap

(* C5's case: a kept reference to a token shows a later, different token   *)
(* of its kind.                                                           *)
C5_Witness ==
  \E i, j \in Calls :
    /\ i < j /\ j = Len(hist)
    /\ Returned(i) /\ hist[i].tok = hist[j].tok
    /\ hist[i].snap # hist[j].snap
    /\ TokValue(Deref(hist[i].tok, d), d) = hist[j].snap

----------------------------------------------------------------------------
(* C6 (Attribute arena aliasing).  AttrsParsed(j) is the number of         *)
(* attributes call j put into the arena, NthAttr(j, n) the n-th of them,  *)
(* View(i) what the Attr of the StartTag of call i shows now.             *)
AttrsParsed(j) == hist[j].heapTo - hist[j].heapFrom

NthAttr(j, n) == hist[j].heapFrom + n

View(i) == AttrsOf(hist[i].raw.Attr, d)

EarlierAndLaterTag(i, j) ==
  /\ i < j /\ j = Len(hist)
  /\ hist[i].tok = StartTagRef /\ hist[j].tok = StartTagRef
  /\ hist[i].raw.Attr.len >= 1
  /\ AttrsParsed(j) >= 1

(* C6 as stated: after a later StartTag with k >= 1 attributes, the first  *)
(* entries of the view an earlier StartTag gave (as many as the view has, *)
(* at most k) are the later tag's attributes, and a Copy() of the earlier *)
(* tag still holds the earlier attributes.                                *)
C6_ViewShowsLaterTag ==
  \A i, j \in Calls :
    EarlierAndLaterTag(i, j) =>
      /\ \A n \in 1..Min(hist[i].raw.Attr.len, AttrsParsed(j)) : View(i)[n] = NthAttr(j, n)
      /\ TokValue(hist[i].copy, d) = hist[i].snap

(* C6 amended: the same, for an earlier view that lies in the backing      *)
(* array the arena had when the later tag was parsed.                     *)
C6_ArenaAliasing ==
  \A i, j \in Calls :
    EarlierAndLaterTag(i, j) /\ hist[i].raw.Attr.arr = hist[j].arena =>
      /\ \A n \in 1..Min(hist[i].raw.Attr.len, AttrsParsed(j)) : View(i)[n] = NthAttr(j, n)
      /\ TokValue(hist[i].copy, d) = hist[i].snap

(* C6's case: the view of an earlier tag shows a later tag's attribute     *)
(* where its copy holds another one.                                      *)
C6_Witness ==
  \E i, j \in Calls :
    /\ EarlierAndLaterTag(i, j) /\ hist[i].raw.Attr.arr = hist[j].arena
    /\ View(i)[1] = NthAttr(j, 1)
    /\ AttrVal(d, View(i)[1]) # hist[i].snap.attrs[1]
    /\ TokValue(hist[i].copy, d).attrs[1] = hist[i].snap.attrs[1]

----------------------------------------------------------------------------
(* C7 (Whitespace collapse).  Run(i) is the character-data run call i      *)
(* read: the input from where the call began up to the next `<`, the end  *)
(* or the Read that failed; Collapse is the normalisation the claim       *)
(* describes.                                                             *)
RECURSIVE RunFrom(_)
RunFrom(p) ==
  IF p > Len(input) \/ input[p] = "<" \/ input[p] = ReadFault THEN <<>>
  ELSE <<input[p]>> \o RunFrom(p + 1)

Run(i) == RunFrom(hist[i].from)

RECURSIVE Collapse(_)
Collapse(s) ==
  IF s = <<>> THEN <<>>
  ELSE IF ~IsSpace(s[1]) THEN <<s[1]>> \o Collapse(Tail(s))
  ELSE IF Len(s) >= 2 /\ IsSpace(s[2]) THEN Collapse(Tail(s))
  ELSE <<" ">> \o Collapse(Tail(s))

(* C7: the payload of every CharData token is its run with each maximal    *)
(* sequence of whitespace replaced by one space; a run that begins with   *)
(* whitespace gives a payload beginning with exactly one space, a run     *)
(* that ends with whitespace one ending with exactly one space.           *)
C7_WhitespaceCollapse ==
  \A i \in Calls :
    hist[i].tok = CharDataRef =>
      LET run == Run(i)
          data == hist[i].snap.data
      IN  /\ data = Collapse(run)
          /\ IsSpace(run[1]) =>
               data[1] = " " /\ (Len(data) >= 2 => data[2] # " ")
          /\ IsSpace(run[Len(run)]) =>
               data[Len(data)] = " " /\ (Len(data) >= 2 => data[Len(data) - 1] # " ")

(* C7's case: a run with leading, inner and trailing whitespace, each      *)
(* longer than its single space in the payload.                           *)
C7_Witness ==
  \E i \in Calls :
    /\ hist[i].tok = CharDataRef
    /\ Run(i) = <<" ", "\n", " ", "a", " ", " ", "b", " ">>
    /\ hist[i].snap.data = <<" ", "a", " ", "b", " ">>

----------------------------------------------------------------------------
(* C8 (No tag-matching validation): a call that begins at a well-formed    *)
(* close tag returns that CloseTag without error, whatever was returned   *)
(* before; in particular <a> followed by </b> gives StartTag{a} and then  *)
(* CloseTag{b}.                                                           *)
CloseTagNames ==
  (<<"<", "/", "b", ">">> :> PlainName(<<"b">>))
  @@ (<<"<", "/", " ", "a", ":", "b", " ", ">">> :> [space |-> <<"a">>, local |-> <<"b">>])

C8_NoTagMatching ==
  \A i \in Calls :
    /\ \A t \in DOMAIN CloseTagNames :
         Begins(i, t) =>
           /\ hist[i].tok = CloseTagRef
           /\ hist[i].err = NoErr
           /\ hist[i].snap.name = CloseTagNames[t]
           /\ hist[i].to = TextStart(i) + Len(t)
    /\ i = 1 /\ TextAt(<<"<", "a", ">", "<", "/", "b", ">">>, 1) /\ 2 \in Calls =>
         /\ hist[1].tok = StartTagRef /\ hist[1].err = NoErr
         /\ hist[1].snap.name = PlainName(<<"a">>)
         /\ hist[2].tok = CloseTagRef /\ hist[2].err = NoErr
         /\ hist[2].snap.name = PlainName(<<"b">>)

(* C8's case: a start tag and, right after it, a close tag of another name. *)
C8_Witness ==
  \E i \in Calls :
    /\ i + 1 \in Calls
    /\ hist[i].tok = StartTagRef /\ hist[i + 1].tok = CloseTagRef
    /\ hist[i].err = NoErr /\ hist[i + 1].err = NoErr
    /\ hist[i].snap.name # hist[i + 1].snap.name
    /\ Fresh(i + 1)

----------------------------------------------------------------------------
(* C9 (Namespace separator errors): a call that begins at a tag whose      *)
(* identifier starts with `:`, ends with `:` or holds a second `:`        *)
(* returns no token and an error that wraps UnexpectedChar and names ':', *)
(* and the interner holds no Name under a spelling of these forms.        *)
BadSeparatorTexts ==
  {<<"<", ":", "a", ">">>,
   <<"<", "a", ":", ">">>,
   <<"<", "a", ":", "b", ":", "a", ">">>}

WellSeparated(key) ==
  LET c == IndexOf(key, ":", 1) IN
  c # 0 => /\ c > 1 /\ c < Len(key)
           /\ IndexOf(key, ":", c + 1) = 0

C9_SeparatorErrors ==
  /\ \A i \in Calls : \A t \in BadSeparatorTexts :
       Begins(i, t) =>
         /\ hist[i].tok = NilTok
         /\ hist[i].err.base = "UnexpectedChar"
         /\ hist[i].err.char = ":"
  /\ \A key \in DOMAIN d.names : WellSeparated(key)

(* C9's case: a call met the empty local part after the separator, with a  *)
(* name already in the interner.                                          *)
C9_Witness ==
  \E i \in Calls :
    /\ Begins(i, <<"<", "a", ":", ">">>)
    /\ hist[i].tok = NilTok
    /\ hist[i].err.char = ":"
    /\ DOMAIN d.names # {}

----------------------------------------------------------------------------
(* C10 (Directive bracket skipping): a call that begins at a directive     *)
(* with bracket groups, whether a group starts inside the body or         *)
(* directly after `<!`, returns one Directive token for the whole text.   *)
BracketDirectiveTexts ==
  {<<"<", "!", "a", "[", "<", ">", "]", "{", ">", "}", "b", ">">>,
   <<"<", "!", "[", ">", "]", ">">>}

C10_DirectiveBracketSkipping ==
  \A i \in Calls : \A t \in BracketDirectiveTexts :
    Begins(i, t) =>
      /\ hist[i].tok = DirectiveRef
      /\ hist[i].err = NoErr
      /\ hist[i].to = TextStart(i) + Len(t)

----------------------------------------------------------------------------
(* C11 (Directive capture): a Directive returned by a call that found      *)
(* ReadDirective on (hist[i].read) has as Data the input between `<!` and *)
(* the `>` the call stopped at, brackets and bracket groups included; as  *)
(* long as no call that returned a Directive found ReadDirective on, Data *)
(* is empty.                                                              *)
Interior(i, opening, closing) ==
  SubSeq(input, TextStart(i) + opening, hist[i].to - 1 - closing)

C11_DirectiveCapture ==
  \A i \in Calls :
    hist[i].tok = DirectiveRef =>
      /\ hist[i].read => hist[i].snap.data = Interior(i, 2, 1)
      /\ (\A j \in 1..i : hist[j].tok = DirectiveRef => ~hist[j].read)
           => hist[i].snap.data = <<>>

(* C11's case: a directive with bracket groups read with ReadDirective on. *)
C11_Witness ==
  \E i \in Calls :
    /\ hist[i].tok = DirectiveRef
    /\ hist[i].read
    /\ hist[i].snap.data = <<"a", "[", "<", ">", "]", "{", ">", "}", "b">>

----------------------------------------------------------------------------
(* C12 (Comment capture toggle).  FirstGt(p) is the position of the first  *)
(* `>` at or after p (past the end when there is none); call i begins at  *)
(* a comment <!--X--> when it begins at `<!--` and the first `>` after    *)
(* that opening has `--` before it.                                       *)
RECURSIVE FirstGt(_)
FirstGt(p) == IF p > Len(input) \/ input[p] = ">" THEN p ELSE FirstGt(p + 1)

CommentEnd(i) == FirstGt(TextStart(i) + 4)

BeginsComment(i) ==
  /\ Begins(i, <<"<", "!", "-", "-">>)
  /\ CommentEnd(i) <= Len(input)
  /\ CommentEnd(i) >= TextStart(i) + 6
  /\ input[CommentEnd(i) - 1] = "-"
  /\ input[CommentEnd(i) - 2] = "-"

(* C12: a call that begins at a comment <!--X--> returns a Comment; its    *)
(* Data is X when the call found ReadComment on, and empty as long as no  *)
(* call that returned a Comment found it on.                              *)
C12_CommentCapture ==
  \A i \in Calls :
    BeginsComment(i) =>
      /\ hist[i].tok = CommentRef
      /\ hist[i].err = NoErr
      /\ hist[i].to = CommentEnd(i) + 1
      /\ hist[i].read => hist[i].snap.data = Interior(i, 4, 3)
      /\ (\A j \in 1..i : hist[j].tok = CommentRef => ~hist[j].read)
           => hist[i].snap.data = <<>>

(* C12's case: a comment with a dash and a space inside, read with         *)
(* ReadComment on.                                                        *)
C12_Witness ==
  \E i \in Calls :
    /\ BeginsComment(i)
    /\ hist[i].read
    /\ hist[i].snap.data = <<"a", " ", "-", "b">>

----------------------------------------------------------------------------
(* C13 (Position reporting).  Consumed(i) is the input read when call i    *)
(* returned; RowOf and ColOf count its newlines and the characters after  *)
(* its last newline.                                                      *)
Consumed(i) == SubSeq(input, 1, hist[i].to - 1)

RECURSIVE RowOf(_)
RowOf(s) ==
  IF s = <<>> THEN 1
  ELSE RowOf(SubSeq(s, 1, Len(s) - 1)) + (IF s[Len(s)] = "\n" THEN 1 ELSE 0)

RECURSIVE ColOf(_)
ColOf(s) ==
  IF s = <<>> \/ s[Len(s)] = "\n" THEN 0 ELSE ColOf(SubSeq(s, 1, Len(s) - 1)) + 1

(* C13: an unexpected-character error reports as row 1 plus the number of  *)
(* newlines consumed and as col the number of characters consumed since   *)
(* the last newline.                                                      *)
C13_PositionReporting ==
  \A i \in Calls :
    hist[i].err.base = "UnexpectedChar" =>
      hist[i].err.at = <<RowOf(Consumed(i)), ColOf(Consumed(i))>>

(* C13's case: a `>` in character data on the second line, reported at the *)
(* column it stands in.                                                   *)
C13_Witness ==
  \E i \in Calls :
    /\ hist[i].err.base = "UnexpectedChar"
    /\ hist[i].err.char = ">"
    /\ input[hist[i].to - 1] = ">"
    /\ hist[i].err.at[1] = 2
    /\ hist[i].err.at[2] >= 2
    /\ hist[i].err.at[2] = ColOf(Consumed(i))

----------------------------------------------------------------------------
(* C14 (Clean end of stream).  Call i began at a token boundary at the end *)
(* of the input when nothing was left to read and nothing was pending.    *)
AtCleanEnd(i) ==
  /\ hist[i].from > Len(input)
  /\ ~hist[i].startedTag
  /\ hist[i].selfClosingTag = 0

(* C14: a call at the clean end returns (nil, io.EOF), bare and without    *)
(* position; io.EOF is returned nowhere else, and after it every later    *)
(* call returns (nil, io.EOF) again.                                      *)
C14_CleanEndOfStream ==
  \A i \in Calls :
    /\ AtCleanEnd(i) => hist[i].tok = NilTok /\ hist[i].err = ErrEOF
    /\ hist[i].err = ErrEOF =>
         /\ AtCleanEnd(i)
         /\ \A j \in Calls : j > i => hist[j].tok = NilTok /\ hist[j].err = ErrEOF

(* C14's case: a token, then io.EOF, then io.EOF again. *)
C14_Witness ==
  \E i \in Calls :
    /\ i >= 2 /\ i + 1 \in Calls
    /\ Returned(i - 1) /\ hist[i - 1].err = NoErr
    /\ hist[i].tok = NilTok /\ hist[i].err = ErrEOF
    /\ hist[i + 1].tok = NilTok /\ hist[i + 1].err = ErrEOF

----------------------------------------------------------------------------
(* C15 (Error annotation): every error a call returns, other than the one  *)
(* of a call at the clean end of the input, comes with a nil token and    *)
(* carries the position ` at row: R col: C` with R = d.row + 1 and        *)
(* C = d.col as the call left them.                                       *)
C15_ErrorAnnotation ==
  \A i \in Calls :
    hist[i].err # NoErr /\ ~AtCleanEnd(i) =>
      /\ hist[i].tok = NilTok
      /\ hist[i].err.at = <<hist[i].row + 1, hist[i].col>>

----------------------------------------------------------------------------
(* C16 (Attribute sequence).  AttrTagTexts gives, for start tags whose     *)
(* attributes are all written name="value" or name='value', the names and *)
(* values in source order; the attribute names have two letters, as has   *)
(* the tag name (C18 is about the identifiers of one letter).             *)
Written(name, value) == [name |-> PlainName(name), value |-> value]

AttrTagTexts ==
  (<<"<", "a", "b", " ", "c", "a", "=", "\"", "'", ">", "\"", "/", ">">>
     :> <<Written(<<"c", "a">>, <<"'", ">">>)>>)
  @@ (<<"<", "a", "b", " ", "c", "a", "=", "'", "a", "'", " ", "c", "a", "=", "\"", "b", "\"", ">">>
     :> <<Written(<<"c", "a">>, <<"a">>), Written(<<"c", "a">>, <<"b">>)>>)
  @@ (TagWith(1) :> <<Written(<<"c", "a">>, <<>>)>>)
  @@ (TagWith(ArenaInitLen) :> [n \in 1..ArenaInitLen |-> Written(<<"c", "a">>, <<>>)])

(* C16: a call that begins at such a tag returns a StartTag with exactly   *)
(* the written attributes, in order, repeated names included, each Attr   *)
(* pointing to the interned Name of its spelling.                         *)
C16_AttributeSequence ==
  \A i \in Calls : \A t \in DOMAIN AttrTagTexts :
    Begins(i, t) =>
      /\ hist[i].tok = StartTagRef
      /\ hist[i].err = NoErr
      /\ hist[i].snap.attrs = AttrTagTexts[t]
      /\ \A n \in 1..Len(hist[i].copy.Attr.own) :
           d.attrHeap[hist[i].copy.Attr.own[n]].Name = d.names[AttrTagTexts[t][n].name.local]

(* C16's case: a tag with two attributes of the same name, both kept. *)
C16_Witness ==
  \E i \in Calls :
    /\ hist[i].tok = StartTagRef
    /\ Len(hist[i].snap.attrs) = 2
    /\ hist[i].snap.attrs[1].name = hist[i].snap.attrs[2].name
    /\ hist[i].snap.attrs[1].value = <<"a">>
    /\ hist[i].snap.attrs[2].value = <<"b">>
    /\ hist[i].copy.Attr.own[1] # hist[i].copy.Attr.own[2]

----------------------------------------------------------------------------
(* C17: a call that begins at a start tag whose name is ended by `>`       *)
(* returns a StartTag of that name with no attributes, whatever was       *)
(* returned before.                                                       *)
BareTagNames ==
  (<<"<", "a", ">">> :> PlainName(<<"a">>))
  @@ (<<"<", "a", ":", "b", ">">> :> [space |-> <<"a">>, local |-> <<"b">>])

C17_BareTagHasNoAttributes ==
  \A i \in Calls : \A t \in DOMAIN BareTagNames :
    Begins(i, t) =>
      /\ hist[i].tok = StartTagRef
      /\ hist[i].err = NoErr
      /\ hist[i].snap.name = BareTagNames[t]
      /\ hist[i].snap.attrs = <<>>

----------------------------------------------------------------------------
(* C18 (Identifier termination).  EndedIdentifierTexts are start tags with *)
(* an identifier that ends in a letter and is ended by whitespace or, as  *)
(* an attribute name, by `=`: of one letter and of two, with the StartTag *)
(* each is to give.  SymbolEndedTexts are tags with an identifier ended   *)
(* by whitespace or `=` after a last character that is no letter, with    *)
(* that character.                                                        *)
EndedIdentifierTexts ==
  (<<"<", "a", " ", "b", "=", "'", "1", "'", ">">>
     :> [kind |-> "StartTag", name |-> PlainName(<<"a">>),
         attrs |-> <<Written(<<"b">>, <<"1">>)>>])
  @@ (<<"<", "a", "b", " ", "c", "=", "'", "1", "'", ">">>
     :> [kind |-> "StartTag", name |-> PlainName(<<"a", "b">>),
         attrs |-> <<Written(<<"c">>, <<"1">>)>>])
  @@ (<<"<", "a", "b", " ", "c", "a", "=", "'", "a", "'", " ", "c", "a", "=", "\"", "b", "\"", ">">>
     :> [kind |-> "StartTag", name |-> PlainName(<<"a", "b">>),
         attrs |-> <<Written(<<"c", "a">>, <<"a">>), Written(<<"c", "a">>, <<"b">>)>>])

SymbolEndedTexts ==
  (<<"<", "a", "b", "-", " ", ">">> :> "-")
  @@ (<<"<", "a", "b", " ", "c", "a", "_", "=", "'", "1", "'", ">">> :> "_")

(* C18: a call that begins at a tag of the first kind returns its StartTag *)
(* without error; one that begins at a tag of the second kind returns no  *)
(* token and an unexpected-character error naming the last character of   *)
(* the identifier.                                                        *)
C18_IdentifierTermination ==
  \A i \in Calls :
    /\ \A t \in DOMAIN EndedIdentifierTexts :
         Begins(i, t) =>
           /\ hist[i].tok = StartTagRef
           /\ hist[i].err = NoErr
           /\ hist[i].snap = EndedIdentifierTexts[t]
    /\ \A t \in DOMAIN SymbolEndedTexts :
         Begins(i, t) =>
           /\ hist[i].tok = NilTok
           /\ hist[i].err.base = "UnexpectedChar"
           /\ hist[i].err.char = SymbolEndedTexts[t]

----------------------------------------------------------------------------
(* C19 (Value-less attributes): a call that begins at a tag with an        *)
(* attribute written without `=` returns a StartTag that holds it with an *)
(* empty value: followed by `>` as the last attribute, followed after     *)
(* whitespace by another attribute together with that attribute, under    *)
(* its whole name and with its value.                                     *)
ValueLessTexts ==
  (<<"<", "a", "b", " ", "c", "a", ">">>
     :> <<Written(<<"c", "a">>, <<>>)>>)
  @@ (<<"<", "a", "b", " ", "c", "a", " ", "b", "a", "b", "=", "'", "1", "'", ">">>
     :> <<Written(<<"c", "a">>, <<>>), Written(<<"b", "a", "b">>, <<"1">>)>>)

C19_ValueLessAttributes ==
  \A i \in Calls : \A t \in DOMAIN ValueLessTexts :
    Begins(i, t) =>
      /\ hist[i].tok = StartTagRef
      /\ hist[i].err = NoErr
      /\ hist[i].snap.name = PlainName(<<"a", "b">>)
      /\ hist[i].snap.attrs = ValueLessTexts[t]

----------------------------------------------------------------------------
(* C20 (String reading).  QuotedValueTexts are tags with one attribute     *)
(* whose value holds the other quote character, `<`, `>`, `/` and         *)
(* whitespace, with that value.                                           *)
QuotedValueTexts ==
  (<<"<", "a", "b", " ", "c", "a", "=", "\"", "'", ">", "\"", "/", ">">>
     :> <<"'", ">">>)
  @@ (<<"<", "a", "b", " ", "c", "a", "=", " ", "'", "<", " ", "/", "\"", "'", ">">>
     :> <<"<", " ", "/", "\"">>)

UnquotedValueText == <<"<", "a", "b", " ", "c", "a", "=", "1", ">">>

OpenValueText == <<"<", "a", "b", " ", "c", "a", "=", "\"", "a">>

(* C20: a call that begins at a tag with a quoted value returns the        *)
(* StartTag with the value as written between the quotes and has read the *)
(* whole tag; a value that opens with another character gives an          *)
(* unexpected-character error naming it; the end of the input before the  *)
(* closing quote gives an unexpected-EOF error.                           *)
C20_StringReading ==
  \A i \in Calls :
    /\ \A t \in DOMAIN QuotedValueTexts :
         Begins(i, t) =>
           /\ hist[i].tok = StartTagRef
           /\ hist[i].err = NoErr
           /\ hist[i].snap.attrs = <<Written(<<"c", "a">>, QuotedValueTexts[t])>>
           /\ hist[i].to = TextStart(i) + Len(t)
    /\ Begins(i, UnquotedValueText) =>
         /\ hist[i].tok = NilTok
         /\ hist[i].err.base = "UnexpectedChar"
         /\ hist[i].err.char = "1"
    /\ Begins(i, OpenValueText) /\ TextStart(i) + Len(OpenValueText) > Len(input) =>
         /\ hist[i].tok = NilTok
         /\ hist[i].err.base = "UnexpectedEOF"
         /\ ~IsEOF(hist[i].err)

(* C20's case: a value with `<`, whitespace, `/` and the other quote in    *)
(* it, opened after whitespace.                                           *)
C20_Witness ==
  \E i \in Calls :
    /\ hist[i].tok = StartTagRef
    /\ Len(hist[i].snap.attrs) = 1
    /\ hist[i].snap.attrs[1].value = <<"<", " ", "/", "\"">>
    /\ input[hist[i].to - 1] = ">"

----------------------------------------------------------------------------
(* C21 (Read failures are fatal).  FaultRead(i): a Read of the source      *)
(* failed, with an error other than io.EOF, during call i.                *)
FaultRead(i) == \E p \in hist[i].from..(hist[i].to - 1) : input[p] = ReadFault

(* C21: a call during which a Read of the source failed returns no token   *)
(* and that error, also when the call was accumulating character data.    *)
C21_ReadFailuresFatal ==
  \A i \in Calls :
    FaultRead(i) => hist[i].tok = NilTok /\ hist[i].err.base = ErrRead.base

----------------------------------------------------------------------------
(* C22 (Synthetic close tag).  Synthetic(i): call i found the close of a   *)
(* self-closing tag pending and no `<` consumed before it.                *)
Synthetic(i) == hist[i].selfClosingTag # 0 /\ ~hist[i].startedTag

ReadsInput(i) == hist[i].to > hist[i].from \/ hist[i].from > Len(input)

(* C22: the call that returns the synthesized CloseTag of a self-closing   *)
(* tag leaves the read position, d.row and d.col as they were, returns    *)
(* the CloseTag with the Name instance that was pending, which is the     *)
(* Name instance of the StartTag the call before returned, and clears the *)
(* pending close, so that the following call reads from the input (or     *)
(* finds its end).                                                        *)
C22_SyntheticCloseFrame ==
  \A i \in Calls :
    Synthetic(i) =>
      /\ hist[i].tok = CloseTagRef /\ hist[i].err = NoErr
      /\ hist[i].to = hist[i].from
      /\ i - 1 \in Calls
      /\ hist[i].row = hist[i - 1].row /\ hist[i].col = hist[i - 1].col
      /\ hist[i].raw.Name = hist[i].selfClosingTag
      /\ hist[i - 1].tok = StartTagRef => hist[i].raw.Name = hist[i - 1].raw.Name
      /\ i + 1 \in Calls => ~Synthetic(i + 1) /\ ReadsInput(i + 1)
      /\ i = Len(hist) => d.selfClosingTag = 0

(* C22's case: a self-closing StartTag, its CloseTag from a call that     *)
(* read nothing and left d.col where the tag ended, and a call after it   *)
(* that read on.                                                          *)
C22_Witness ==
  \E i \in Calls :
    /\ Synthetic(i) /\ i + 1 \in Calls
    /\ hist[i - 1].tok = StartTagRef
    /\ hist[i].raw.Name = hist[i - 1].raw.Name
    /\ hist[i].col >= 6 /\ hist[i].col = hist[i].to - 1 /\ hist[i].to = hist[i].from
    /\ hist[i + 1].to > hist[i + 1].from

----------------------------------------------------------------------------
(* C23 (Pending close only after a returned StartTag): every CloseTag      *)
(* returned by a call that consumed no input comes right after a call     *)
(* that returned, without error, a StartTag with the same Name; so a      *)
(* start tag that fails after its `/` is followed by no CloseTag for it.  *)
C23_PendingOnlyAfterStartTag ==
  \A i \in Calls :
    hist[i].tok = CloseTagRef /\ hist[i].to = hist[i].from =>
      /\ i - 1 \in Calls
      /\ hist[i - 1].tok = StartTagRef
      /\ hist[i - 1].err = NoErr
      /\ hist[i - 1].raw.Name = hist[i].raw.Name

----------------------------------------------------------------------------
(* C24 (Comment closing rule).  Dashes(p, q) is the number of `-` in the   *)
(* input from p to q; the body of the comment that call i begins at runs  *)
(* from behind `<!--` to before the first `>` (CommentEnd).               *)
RECURSIVE Dashes(_, _)
Dashes(p, q) ==
  IF p > q THEN 0 ELSE Dashes(p + 1, q) + (IF input[p] = "-" THEN 1 ELSE 0)

----------------------------------------------------------------------------
(* C25 (Comment capture strips the closing dashes): for every Comment      *)
(* returned by a call that found ReadComment on, Data is the body, from   *)
(* behind `<!--` to before the `>`, without its last two characters, and  *)
(* these two characters are both `-`.                                     *)
C25_CommentStripsDashes ==
  \A i \in Calls :
    hist[i].tok = CommentRef /\ hist[i].read =>
      LET body == Interior(i, 4, 1) IN
      /\ Len(body) >= 2
      /\ hist[i].snap.data = SubSeq(body, 1, Len(body) - 2)
      /\ body[Len(body) - 1] = "-"
      /\ body[Len(body)] = "-"

----------------------------------------------------------------------------
(* C26 (Capture off gives empty Data): a Comment returned by a call that   *)
(* found ReadComment off, and a Directive returned by a call that found   *)
(* ReadDirective off, has empty Data, whatever the option was for the     *)
(* comments and directives before it.                                     *)
C26_CaptureOffEmptyData ==
  \A i \in Calls :
    hist[i].tok \in {CommentRef, DirectiveRef} /\ ~hist[i].read =>
      hist[i].snap.data = <<>>

----------------------------------------------------------------------------
(* C27 (Processing instruction).  ProcInstEnd(i) is the first `>` behind   *)
(* the `<?` that call i begins at.                                        *)
ProcInstEnd(i) == FirstGt(TextStart(i) + 2)

(* C27: a call that begins at `<?` ends at the first `>`; it returns a     *)
(* ProcInst, which has no content whatever the options are, when the body *)
(* character right before that `>` is `?`, and the error `proc inst       *)
(* closed too early` when it is another character or the body is empty;   *)
(* when the input ends before any `>` it returns an unexpected-EOF error. *)
C27_ProcInst ==
  \A i \in Calls :
    Begins(i, <<"<", "?">>) /\ ~FaultRead(i) =>
      IF ProcInstEnd(i) > Len(input)
      THEN /\ hist[i].tok = NilTok
           /\ hist[i].err.base = ErrUnexpectedEOF.base
      ELSE /\ hist[i].to = ProcInstEnd(i) + 1
           /\ IF ProcInstEnd(i) > TextStart(i) + 2 /\ input[ProcInstEnd(i) - 1] = "?"
              THEN /\ hist[i].tok = ProcInstRef /\ hist[i].err = NoErr
                   /\ hist[i].raw = [kind |-> "ProcInst"]
                   /\ hist[i].snap = [kind |-> "ProcInst"]
              ELSE /\ hist[i].tok = NilTok
                   /\ hist[i].err.base = ErrProcInstClosed.base

(* C27's case: a processing instruction with a body returned as ProcInst   *)
(* while both capture options are on.                                     *)
C27_Witness ==
  \E i \in Calls :
    /\ i = Len(hist)
    /\ Begins(i, <<"<", "?", "a", "?", ">">>)
    /\ hist[i].tok = ProcInstRef
    /\ d.ReadComment /\ d.ReadDirective

----------------------------------------------------------------------------
(* C28 (Angle-start dispatch).  After(i, k) is the k-th character behind   *)
(* the `<` that call i begins at, Has(i, k) says that the source delivers *)
(* it; StartTagContexts and CloseTagContexts are the phrases startTag and *)
(* closeTag put on the errors they return.                                *)
After(i, k) == input[TextStart(i) + k]

Has(i, k) == TextStart(i) + k <= Len(input) /\ After(i, k) # ReadFault

StartTagContexts ==
  {"expected tag identifier", "expected attribute identifier",
   "expected '>' for self-close tag", "on tag", "for attribute on tag",
   "after attribute on tag", "expected value for attribute on tag",
   "reading attribute value on tag"}

CloseTagContexts ==
  {"expected closing tag", "on closing tag", "expected '>' for closing tag"}

Outermost(err) == err.ctx[Len(err.ctx)]

(* call i returned a token of kind ref, or an error that one of the        *)
(* contexts was put on last                                               *)
TagProduction(i, ref, contexts) ==
  \/ hist[i].tok = ref /\ hist[i].err = NoErr
  \/ /\ hist[i].tok = NilTok
     /\ hist[i].err.ctx # <<>>
     /\ Outermost(hist[i].err) \in contexts

(* call i returned a token of kind ref, or one of the errors without       *)
(* context that the production returns                                    *)
ScanProduction(i, ref, bases) ==
  \/ hist[i].tok = ref /\ hist[i].err = NoErr
  \/ hist[i].tok = NilTok /\ hist[i].err.base \in bases

(* C28: a call that begins at `<` and reads the character c behind it is   *)
(* a start tag for a letter, a close tag for `/`, a processing            *)
(* instruction for `?`, and for `!` a comment when `--` follows, a        *)
(* directive when a character other than `-` follows (an empty one when   *)
(* it is `>`, and else one whose captured Data begins with that           *)
(* character), and an unexpected-character error with `expected '<--'`    *)
(* when `-` and then another character follows; any other c gives an      *)
(* unexpected-character error for c.                                      *)
C28_AngleStartDispatch ==
  \A i \in Calls :
    Begins(i, <<"<">>) /\ Has(i, 1) =>
      LET c == After(i, 1) IN
      /\ isASCIILetter(c) => TagProduction(i, StartTagRef, StartTagContexts)
      /\ c = "/" => TagProduction(i, CloseTagRef, CloseTagContexts)
      /\ c = "?" =>
           ScanProduction(i, ProcInstRef,
                          {ErrProcInstClosed.base, ErrUnexpectedEOF.base, ErrRead.base})
      /\ c = "!" /\ Has(i, 2) /\ After(i, 2) # "-" =>
           /\ \/ hist[i].tok = DirectiveRef /\ hist[i].err = NoErr
              \/ /\ hist[i].tok = NilTok
                 /\ hist[i].err.base \in {ErrUnexpectedEOF.base, ErrRead.base}
           /\ After(i, 2) = ">" =>
                /\ hist[i].tok = DirectiveRef
                /\ hist[i].to = TextStart(i) + 3
                /\ hist[i].read => hist[i].snap.data = <<>>
           /\ After(i, 2) # ">" /\ hist[i].tok = DirectiveRef /\ hist[i].read =>
                hist[i].snap.data[1] = After(i, 2)
      /\ c = "!" /\ Has(i, 2) /\ After(i, 2) = "-" /\ Has(i, 3) =>
           IF After(i, 3) = "-"
           THEN ScanProduction(i, CommentRef,
                               {ErrCommentClosed.base, ErrUnexpectedEOF.base, ErrRead.base})
           ELSE /\ hist[i].tok = NilTok
                /\ hist[i].err.base = "UnexpectedChar"
                /\ hist[i].err.char = After(i, 3)
                /\ hist[i].err.ctx = <<"expected '<--'">>
                /\ hist[i].to = TextStart(i) + 4
      /\ ~isASCIILetter(c) /\ c \notin {"/", "?", "!"} =>
           /\ hist[i].tok = NilTok
           /\ hist[i].err.base = "UnexpectedChar"
           /\ hist[i].err.char = c
           /\ hist[i].err.ctx = <<>>
           /\ hist[i].to = TextStart(i) + 2

(* C28's case: a directive whose first character behind `<!` is a         *)
(* bracket, captured as a body character, in a call after one that        *)
(* returned the token of another production begun at `<`.                 *)
C28_Witness ==
  \E i, j \in Calls :
    /\ i < j
    /\ Begins(j, <<"<", "!", "[">>)
    /\ hist[j].tok = DirectiveRef /\ hist[j].read
    /\ hist[j].snap.data[1] = "["
    /\ Begins(i, <<"<">>) /\ After(i, 1) \in {"a", "/", "?", "!"}
    /\ Returned(i)

----------------------------------------------------------------------------
(* C29 (Close tag grammar).  CloseTagGrammarTexts are close tags written   *)
(* `</`, optional whitespace, an identifier that starts with a letter,    *)
(* optional whitespace, `>`, with the Name each is to give;               *)
(* CloseTagErrorTexts are close tags with a character that is no letter   *)
(* where the identifier is to start, or with a character other than `>`   *)
(* behind the whitespace after the identifier, with that character.       *)
CloseTagGrammarTexts ==
  (<<"<", "/", "b", ">">> :> PlainName(<<"b">>))
  @@ (<<"<", "/", " ", "a", ":", "b", " ", ">">> :> [space |-> <<"a">>, local |-> <<"b">>])
  @@ (<<"<", "/", "a", " ", ">">> :> PlainName(<<"a">>))

CloseTagErrorTexts ==
  (<<"<", "/", "1", ">">> :> "1")
  @@ (<<"<", "/", "a", "b", " ", "c", ">">> :> "c")

(* C29: a call that begins at a close tag of the first kind returns the    *)
(* CloseTag with the interned Name of its identifier and has read the     *)
(* whole tag; one that begins at a close tag of the second kind returns   *)
(* no token and an unexpected-character error naming the character.       *)
C29_CloseTagGrammar ==
  \A i \in Calls :
    /\ \A t \in DOMAIN CloseTagGrammarTexts :
         Begins(i, t) =>
           /\ hist[i].tok = CloseTagRef
           /\ hist[i].err = NoErr
           /\ hist[i].snap.name = CloseTagGrammarTexts[t]
           /\ hist[i].to = TextStart(i) + Len(t)
    /\ \A t \in DOMAIN CloseTagErrorTexts :
         Begins(i, t) =>
           /\ hist[i].tok = NilTok
           /\ hist[i].err.base = "UnexpectedChar"
           /\ hist[i].err.char = CloseTagErrorTexts[t]

----------------------------------------------------------------------------
(* C30 (Character-data boundaries).  TopLevel(i): call i began at a token  *)
(* boundary, nothing pending, at a character that is not `<`; RunEnd(p)   *)
(* is the first position from p on that holds `<` or `>` or where the     *)
(* Read failed, or the position past the end of the input.                *)
TopLevel(i) ==
  /\ ~hist[i].startedTag /\ hist[i].selfClosingTag = 0
  /\ hist[i].from <= Len(input)
  /\ input[hist[i].from] \notin {"<", ReadFault}

RECURSIVE RunEnd(_)
RunEnd(p) ==
  IF p > Len(input) \/ input[p] \in {"<", ">", ReadFault} THEN p ELSE RunEnd(p + 1)

(* the call after a run that `<` ended: it begins behind that `<` and is   *)
(* the production the character there selects                             *)
StraightToAngleStart(j, e) ==
  /\ hist[j].startedTag
  /\ hist[j].from = e + 1
  /\ TextStart(j) = e
  /\ e + 1 > Len(input) =>
       hist[j].tok = NilTok /\ hist[j].err.base = ErrUnexpectedEOF.base
  /\ Has(j, 1) /\ isASCIILetter(After(j, 1)) =>
       TagProduction(j, StartTagRef, StartTagContexts)
  /\ Has(j, 1) /\ After(j, 1) = "/" =>
       TagProduction(j, CloseTagRef, CloseTagContexts)

(* C30: character data is returned by calls at top level only; such a     *)
(* call reads up to the first `<`, `>` or end of the input.  At the end   *)
(* it returns the CharData; at `<` it returns the CharData with the `<`   *)
(* consumed, and the next call begins behind that `<` in angle-start      *)
(* handling; at `>`, as first character or inside the run, it returns no  *)
(* token and an unexpected-character error for `>`.                       *)
C30_CharDataBoundaries ==
  \A i \in Calls :
    /\ hist[i].tok = CharDataRef => TopLevel(i)
    /\ TopLevel(i) =>
         LET e == RunEnd(hist[i].from) IN
         /\ e > Len(input) =>
              /\ hist[i].tok = CharDataRef /\ hist[i].err = NoErr
              /\ hist[i].to = e
         /\ e <= Len(input) /\ input[e] = "<" =>
              /\ hist[i].tok = CharDataRef /\ hist[i].err = NoErr
              /\ hist[i].to = e + 1
              /\ i + 1 \in Calls => StraightToAngleStart(i + 1, e)
              /\ i = Len(hist) => d.startedTag
         /\ e <= Len(input) /\ input[e] = ">" =>
              /\ hist[i].tok = NilTok
              /\ hist[i].err.base = "UnexpectedChar" /\ hist[i].err.char = ">"
              /\ hist[i].err.ctx = IF e = hist[i].from THEN <<>> ELSE <<"on chardata">>
              /\ hist[i].to = e + 1

(* C30's case: character data ended by `<`, and a StartTag from the next   *)
(* call, which began behind that `<`.                                     *)
C30_Witness ==
  \E i \in Calls :
    /\ i + 1 \in Calls
    /\ hist[i].tok = CharDataRef
    /\ input[hist[i].to - 1] = "<"
    /\ hist[i + 1].from = hist[i].to
    /\ hist[i + 1].tok = StartTagRef
    /\ hist[i].snap.data = <<"a">>

----------------------------------------------------------------------------
(* C31 (Interning identity).  Spelling(n) is the identifier as written for *)
(* a Name: prefix, `:` and local part, or the local part alone;           *)
(* NamesGiven is the set of Name pointers handed out so far, in returned  *)
(* StartTag and CloseTag tokens and in the Attr ever allocated.           *)
Spelling(n) == IF n.space = <<>> THEN n.local ELSE n.space \o <<":">> \o n.local

NamesGiven ==
  {hist[i].raw.Name : i \in {c \in Calls : hist[c].tok \in {StartTagRef, CloseTagRef}}}
  \cup {d.attrHeap[a].Name : a \in 1..Len(d.attrHeap)}

(* C31: every Name handed out, as tag name, close-tag name or attribute    *)
(* name, is the one instance the interner holds for its spelling; two     *)
(* spellings have two instances and there are no instances besides; and   *)
(* the Name a returned tag points to still has the value it was returned  *)
(* with.                                                                  *)
C31_InterningIdentity ==
  /\ \A p \in NamesGiven :
       /\ p \in 1..Len(d.nameHeap)
       /\ Spelling(d.nameHeap[p]) \in DOMAIN d.names
       /\ d.names[Spelling(d.nameHeap[p])] = p
  /\ \A k1, k2 \in DOMAIN d.names : k1 # k2 => d.names[k1] # d.names[k2]
  /\ Len(d.nameHeap) = Cardinality(DOMAIN d.names)
  /\ \A i \in Calls :
       hist[i].tok \in {StartTagRef, CloseTagRef} =>
         NameVal(d, hist[i].raw.Name) = hist[i].snap.name

(* C31's case: a start tag with a namespace prefix and a close tag of a    *)
(* later call that point to one Name instance.                            *)
C31_Witness ==
  \E i, j \in Calls :
    /\ i < j
    /\ hist[i].tok = StartTagRef /\ hist[j].tok = CloseTagRef
    /\ hist[i].raw.Name = hist[j].raw.Name
    /\ hist[i].snap.name.space # <<>>
    /\ d.names[Spelling(hist[i].snap.name)] = hist[j].raw.Name

----------------------------------------------------------------------------
(* C32 (The pending markers exclude each other): between Token() calls,    *)
(* whatever the calls returned, d.startedTag and d.selfClosingTag are     *)
(* never both set, and no call found both set.                            *)
C32_MarkersExclusive ==
  /\ ~(d.startedTag /\ d.selfClosingTag # 0)
  /\ \A i \in Calls : ~(hist[i].startedTag /\ hist[i].selfClosingTag # 0)

(* C32's case: a call that found the `<` of character data consumed read   *)
(* a start tag up to its `/`, returned an error and left the close        *)
(* pending.                                                               *)
C32_Witness ==
  \E i \in Calls :
    /\ i = Len(hist)
    /\ hist[i].startedTag
    /\ hist[i].err # NoErr
    /\ d.selfClosingTag # 0 /\ ~d.startedTag

----------------------------------------------------------------------------
(* C33 (CharData payload): every CharData token is returned with a         *)
(* payload that is not empty and holds no `<`, no `>`, no whitespace      *)
(* other than the space character and no two spaces in a row.             *)
C33_CharDataPayload ==
  \A i \in Calls :
    hist[i].tok = CharDataRef =>
      LET data == hist[i].snap.data IN
      /\ data # <<>>
      /\ \A n \in 1..Len(data) :
           /\ data[n] \notin {"<", ">"}
           /\ IsSpace(data[n]) => data[n] = " "
           /\ n > 1 /\ data[n] = " " => data[n - 1] # " "

(* C33's case: a run with a newline and with spaces in a row, read after   *)
(* another token and returned with single spaces.                         *)
C33_Witness ==
  \E i \in Calls :
    /\ i > 1
    /\ hist[i].tok = CharDataRef
    /\ \E p \in hist[i].from..(hist[i].to - 1) : input[p] = "\n"
    /\ hist[i].to - hist[i].from > Len(hist[i].snap.data) + 1
    /\ \E n \in 1..Len(hist[i].snap.data) : hist[i].snap.data[n] = " "

----------------------------------------------------------------------------
(* C34 (No two CharData in a row): no call that returned a CharData token  *)
(* is followed directly by another call that returned a CharData token.   *)
C34_NoAdjacentCharData ==
  \A i \in Calls :
    i + 1 \in Calls => ~(hist[i].tok = CharDataRef /\ hist[i + 1].tok = CharDataRef)

----------------------------------------------------------------------------
(* C35 (Termination).  NoStopBefore(n): no call before call n returned an  *)
(* error, so a caller that stops at the first error or io.EOF makes call  *)
(* n; InputChars is the number of characters the source delivers;         *)
(* SelfClosedBefore(n) is the number of self-closing start tags returned  *)
(* before call n.                                                         *)
NoStopBefore(n) == \A j \in 1..(n - 1) : hist[j].err = NoErr

InputChars == Cardinality({p \in 1..Len(input) : input[p] # ReadFault})

SelfClosedBefore(n) ==
  Cardinality({j \in 1..(n - 1) :
                 /\ hist[j].tok = StartTagRef
                 /\ hist[j].to >= 3
                 /\ input[hist[j].to - 2] = "/"})

(* C35: every call ends within the input; a call that returns a token      *)
(* other than a synthesized CloseTag has consumed at least one character; *)
(* and the caller that stops at the first error or io.EOF makes at most   *)
(* InputChars + self-closing tags + 1 calls.                              *)
C35_Termination ==
  \A i \in Calls :
    /\ hist[i].from <= hist[i].to /\ hist[i].to <= Len(input) + 1
    /\ Returned(i) /\ ~Synthetic(i) =>
         /\ hist[i].to > hist[i].from
         /\ input[hist[i].from] # ReadFault
    /\ NoStopBefore(i) => i <= InputChars + SelfClosedBefore(i) + 1

(* C35's case: a caller that read a self-closing tag and more and stopped  *)
(* at io.EOF.                                                             *)
C35_Witness ==
  \E i \in Calls :
    /\ i = Len(hist) /\ i >= 4
    /\ NoStopBefore(i)
    /\ hist[i].err = ErrEOF
    /\ SelfClosedBefore(i) >= 1
    /\ \E j \in 1..(i - 1) : Synthetic(j)

----------------------------------------------------------------------------
(* C36 (Position counters move with consumed characters only): a call at   *)
(* the end of the input, which consumes nothing, leaves d.row and d.col   *)
(* as the call before left them, and an unexpected-EOF error reports the  *)
(* row and col of the last character consumed (RowOf and ColOf of the     *)
(* input read).                                                           *)
C36_PositionOnlyOnConsume ==
  \A i \in Calls :
    /\ i > 1 /\ hist[i].from > Len(input) /\ hist[i].to = hist[i].from =>
         hist[i].row = hist[i - 1].row /\ hist[i].col = hist[i - 1].col
    /\ hist[i].err.base = ErrUnexpectedEOF.base =>
         hist[i].err.at = <<RowOf(Consumed(i)), ColOf(Consumed(i))>>

----------------------------------------------------------------------------
(* The attribute arena on its own: reset(), add() and get() called in any  *)
(* order on the arena of a new Decoder.  Here hist is the log of the      *)
(* calls since, and with, the last reset() or get(): for an add() the     *)
(* Attr added, the cursor and the length of the backing array before the  *)
(* call and the length after it; for a get() the slice returned, what it  *)
(* held on return and the Attr added before it; idle counts the reset()   *)
(* and get() calls.                                                       *)

MaxAdds == 50

MaxRounds == 2

Added == [n \in 1..(Len(hist) - 1) |-> hist[n + 1].attr]

ArenaInit ==
  /\ input = <<>>
  /\ d = NewDecoder
  /\ hist = <<[op |-> "new"]>>
  /\ idle = 0

ArenaReset ==
  /\ idle < MaxRounds
  /\ d' = attrsReset(d)
  /\ hist' = <<[op |-> "reset"]>>
  /\ idle' = idle + 1
  /\ UNCHANGED input

ArenaAdd ==
  /\ Len(d.attrHeap) < MaxAdds
  /\ d' = attrsAdd(newAttr(d, 0), Len(d.attrHeap) + 1)
  /\ hist' = Append(hist, [op |-> "add", attr |-> Len(d.attrHeap) + 1,
                           pos |-> d.attrs.pos, len |-> arenaLen(d),
                           grown |-> arenaLen(d')])
  /\ UNCHANGED <<input, idle>>

ArenaGet ==
  /\ idle < MaxRounds
  /\ d' = attrsGet(d).d
  /\ hist' = <<[op |-> "get", got |-> attrsGet(d).attrs,
                 held |-> AttrsOf(attrsGet(d).attrs, d'), added |-> Added]>>
  /\ idle' = idle + 1
  /\ UNCHANGED input

ArenaNext == ArenaReset \/ ArenaAdd \/ ArenaGet

ArenaSpec == ArenaInit /\ [][ArenaNext]_vars

----------------------------------------------------------------------------
(* C37 (Arena index safety): the cursor is at least 0 and less than the    *)
(* length of the backing array at all times, so before every add(); each  *)
(* add() since the last reset() or get() wrote its Attr into the backing  *)
(* array, at the place the cursor had; and get() returned the Attr added  *)
(* since the last reset() or get(), in the order they were added, or nil  *)
(* when there were none.                                                  *)
C37_ArenaIndexSafety ==
  /\ 0 <= d.attrs.pos /\ d.attrs.pos < arenaLen(d)
  /\ \A n \in 2..Len(hist) :
       /\ hist[n].pos = n - 2
       /\ hist[n].pos < hist[n].len
       /\ hist[n].pos + 1 \in DOMAIN d.arrays[d.attrs.arr]
       /\ d.arrays[d.attrs.arr][hist[n].pos + 1] = hist[n].attr
  /\ hist[1].op = "get" =>
       IF hist[1].added = <<>>
       THEN hist[1].got = NilAttrs
       ELSE hist[1].got # NilAttrs /\ hist[1].held = hist[1].added

(* C37's case: a get() that returned more Attr than the arena had room for *)
(* at first, after a reset().                                             *)
C37_Witness ==
  /\ hist[1].op = "get"
  /\ idle = 2
  /\ Len(hist[1].added) > ArenaInitLen
  /\ hist[1].held = hist[1].added

----------------------------------------------------------------------------
(* C38 (Arena growth): add() makes the backing array longer only when it   *)
(* is full, that is when the cursor, the number of Attr stored, equals    *)
(* its length, and then by two thirds of its length, rounded down; an     *)
(* add() made while a place is free leaves the length as it was.          *)
C38_GrowsOnlyWhenFull ==
  \A n \in 2..Len(hist) :
    IF hist[n].pos = hist[n].len
    THEN hist[n].grown = hist[n].len + (hist[n].len * 2) \div 3
    ELSE hist[n].grown = hist[n].len

====
